---- MODULE Spec2Model ----
(***************************************************************************)
(* Model of the bank data simulator, AdvancedBankDataSimulator of           *)
(* scripts/bank_data_simulator_advanced.py: the transaction engine          *)
(* (generate_transactions_advanced) with the two scorers it calls, the      *)
(* device pass (generate_device_fingerprinting), the alert sampler          *)
(* (generate_fraud_alerts_history), the orchestration (generate_all_tables) *)
(* and the seeding of the generators at import.                             *)
(*                                                                          *)
(* Units: a timestamp is a number of seconds since 2026-01-01 00:00:00; an  *)
(* amount is a number of cents (round(x, 2) keeps two decimals); a raw      *)
(* random amount is a number of thousandths; a seasonal factor is scaled by *)
(* FactorScale and a compatibility probability by ProbScale.  Every         *)
(* random.random() < p test with 0 < p < 1 can come out either way.         *)
(*                                                                          *)
(* generate_transactions_advanced reads its two table arguments and the     *)
(* instance fields n_customers, n_transactions, simulation_days, end_date   *)
(* and merchant_clusters['compromised'].  Init is the state at its entry.   *)
(* Row fields that no modelled operation reads (transaction_status,         *)
(* transaction_type, currency, merchant_city, names, scores) are left out   *)
(* of the rows.                                                             *)
(*                                                                          *)
(* Specifications: Spec runs the engine's loop, one action per iteration;   *)
(* SpecSelection follows one iteration statement by statement;              *)
(* SpecDownstream runs the device pass and the alert sampler on a           *)
(* Transaction table; SpecAlerts runs the alert sampler on larger tables;   *)
(* SpecPipeline runs generate_all_tables; SpecRuns runs the engine's draws  *)
(* and seasonality test in processes that import the module; SpecSeasonal   *)
(* and SpecCompatible call each scorer on its own; SpecOrphans runs the     *)
(* device pass and the alert sampler on tables with rows that reference no  *)
(* customer or merchant; SpecDevicePass runs the device pass on longer      *)
(* tables.                                                                  *)
(***************************************************************************)
EXTENDS Integers, Sequences, FiniteSets, TLC

VARIABLES
    customers,           \* the Customer table passed in (set of rows)
    merchants,           \* the Merchant table passed in (set of rows)
    n_customers,         \* self.n_customers
    n_transactions,      \* self.n_transactions
    compromised,         \* self.merchant_clusters['compromised']
    fraudster_set,       \* local fraudster_set
    transactions,        \* local list transactions (emitted rows, in order)
    customer_last_txn,   \* local dict customer_id -> last timestamp
    customer_countries,  \* local dict customer_id -> usual country
    i,                   \* loop index of "for i in range(self.n_transactions)"
    pc,                  \* position of the control: "loop" while the for
                         \* loop of the engine runs, "done" after it
    decision,            \* locals of the latest loop iteration
    \* the locals of a loop iteration followed statement by statement
    cur_customer,        \* local customer (line 393), None before it is drawn
    cur_timestamp,       \* local txn_timestamp (line 380)
    cur_merchant,        \* local merchant (line 399), None before a sample
    attempts,            \* local attempts (line 397)
    sampled,             \* history of the while loop: <<merchant_id, accepted>>
    \* generate_device_fingerprinting
    compromised_devices, \* self.compromised_devices
    devices,             \* local list devices (appended rows, in order)
    customer_devices,    \* local dict customer_id -> device record
    device_usage_count,  \* local dict device_id -> set of customer ids
    pos,                 \* number of rows the iterrows loop has consumed
    df_devices,          \* the returned table, None before the return
    invocation,          \* number of calls of generate_device_fingerprinting
    \* generate_fraud_alerts_history
    alerted_txns,        \* local alerted_txns: positions of the sampled rows
    alerts,              \* local list alerts (appended rows, in order)
    \* the process: generators seeded at import, clock, simulator instance
    rng,                 \* number of draws taken from the generators seeded
                         \* at import (lines 15-16)
    stream,              \* the draws the seeded generators give, by position
    now,                 \* the clock datetime.now() reads
    end_date,            \* self.end_date, None before a simulator exists
    runs,                \* the tables the runs have returned so far
    \* a call of one of the two scorers
    call_args,           \* the arguments of the call, None when there is none
    call_result          \* the value returned, None before the return

\* the state of generate_transactions_advanced
engineVars == <<customers, merchants, n_customers, n_transactions, compromised,
                fraudster_set, transactions, customer_last_txn,
                customer_countries, i, decision>>

iterVars == <<cur_customer, cur_timestamp, cur_merchant, attempts, sampled>>

\* the variables generate_transactions_advanced, run as one action per
\* iteration, leaves alone
deviceVars == <<compromised_devices, devices, customer_devices,
                device_usage_count, pos, df_devices, invocation>>

alertVars == <<alerted_txns, alerts>>

runVars == <<rng, stream, now, end_date, runs>>

callVars == <<call_args, call_result>>

stageVars == <<iterVars, deviceVars, alertVars, runVars, callVars>>

vars == <<engineVars, pc, stageVars>>

\* Python's None, and a value that is not None
None == <<>>
Some(x) == <<x>>

(***************************************************************************)
(* Bounds and sampled inputs.                                               *)
(***************************************************************************)
\* self.n_transactions: the number of draws of one run
NTransactions == 2

\* values of self.n_customers (the fraudster count is int(n_customers * 0.01))
NCustomersSamples == {99, 150}

\* the sampled draws of one timestamp: <<days_ago, hour, minute, second>> from
\* np.random.exponential(scale=30), np.random.choice(range(24), p=hour_probs)
\* and np.random.randint(0, 60) twice
TimeSamples == { <<0, 0, 0, 0>>, <<0, 13, 0, 0>> }

(***************************************************************************)
(* Calendar: datetime fields of a timestamp (year 2026, not a leap year).   *)
(***************************************************************************)
SecondsPerDay == 24 * 3600

DaysBeforeMonth == <<0, 31, 59, 90, 120, 151, 181, 212, 243, 273, 304, 334>>

DateTime(month, day, hour, minute, second) ==
    ((DaysBeforeMonth[month] + day - 1) * 24 + hour) * 3600 + minute * 60 + second

\* dt.weekday(): Monday = 0 .. Sunday = 6 (2026-01-01 is a Thursday)
Weekday(dt) == ((dt \div SecondsPerDay) + 3) % 7

\* dt.hour
HourOf(dt) == (dt \div 3600) % 24

\* dt.month
MonthOf(dt) ==
    LET d == dt \div SecondsPerDay
    IN  CHOOSE m \in 1..12 :
            /\ DaysBeforeMonth[m] <= d
            /\ (m = 12 \/ d < DaysBeforeMonth[m + 1])

\* self.end_date = datetime.now(): Saturday 2026-12-19 19:30:00
EndDate == DateTime(12, 19, 19, 30, 0)

\* self.simulation_days (default)
SimulationDays == 180

(***************************************************************************)
(* _get_seasonal_factor                                                     *)
(***************************************************************************)
FactorScale == 100 * 100 * 10

\* day_weights, times 100
DayFactor(dt) ==
    CASE Weekday(dt) = 0 -> 90
      [] Weekday(dt) = 1 -> 95
      [] Weekday(dt) = 2 -> 100
      [] Weekday(dt) = 3 -> 105
      [] Weekday(dt) = 4 -> 130
      [] Weekday(dt) = 5 -> 160
      [] Weekday(dt) = 6 -> 70

\* hour_factor, times 100
HourFactor(dt) ==
    LET hour == HourOf(dt)
    IN  IF 0 <= hour /\ hour <= 5 THEN 15
        ELSE IF 6 <= hour /\ hour <= 8 THEN 60
        ELSE IF 9 <= hour /\ hour <= 11 THEN 100
        ELSE IF 12 <= hour /\ hour <= 14 THEN 140
        ELSE IF 15 <= hour /\ hour <= 17 THEN 110
        ELSE IF 18 <= hour /\ hour <= 21 THEN 150
        ELSE 80

\* month_factor, times 10
MonthFactor(dt) ==
    LET month == MonthOf(dt)
    IN  IF month = 12 THEN 18
        ELSE IF month \in {1, 7} THEN 15
        ELSE IF month \in {6, 7, 8} THEN 13
        ELSE 10

\* day_factor * hour_factor * month_factor, times FactorScale
_get_seasonal_factor(dt) == DayFactor(dt) * HourFactor(dt) * MonthFactor(dt)

(***************************************************************************)
(* _is_customer_merchant_compatible                                         *)
(***************************************************************************)
ProbScale == 1000 * 100

\* compatibility_matrix, times 1000
compatibility_matrix(segment, risk) ==
    CASE segment = "Basic"    /\ risk = "low"    -> 900
      [] segment = "Basic"    /\ risk = "medium" -> 600
      [] segment = "Basic"    /\ risk = "high"   -> 200
      [] segment = "Standard" /\ risk = "low"    -> 800
      [] segment = "Standard" /\ risk = "medium" -> 900
      [] segment = "Standard" /\ risk = "high"   -> 500
      [] segment = "Premium"  /\ risk = "low"    -> 700
      [] segment = "Premium"  /\ risk = "medium" -> 900
      [] segment = "Premium"  /\ risk = "high"   -> 800
      [] segment = "Private"  /\ risk = "low"    -> 600
      [] segment = "Private"  /\ risk = "medium" -> 800
      [] segment = "Private"  /\ risk = "high"   -> 900
      [] OTHER -> 500

\* mutant of _is_customer_merchant_compatible: the two adjustments are made
\* whatever the category code
CompatibleAnyCode(customer, merchant) ==
    LET segment == customer.customer_segment
        risk == merchant.merchant_risk_category
        base_prob == compatibility_matrix(segment, risk) * 100
        pep_adj == IF customer.is_pep = 1
                   THEN (base_prob * 1) \div 10 ELSE base_prob
    IN  IF segment = "Basic" THEN (pep_adj * 3) \div 10 ELSE pep_adj

\* the returned probability, times ProbScale
_is_customer_merchant_compatible(customer, merchant) ==
    LET segment == customer.customer_segment
        risk == merchant.merchant_risk_category
        mcc == merchant.mcc_code
        base_prob == compatibility_matrix(segment, risk) * 100
        pep_adj == IF customer.is_pep = 1 /\ mcc \in {"7995", "5999"}
                   THEN (base_prob * 1) \div 10 ELSE base_prob
    IN  IF segment = "Basic" /\ mcc \in {"5735", "4121"}
        THEN (pep_adj * 3) \div 10 ELSE pep_adj

(***************************************************************************)
(* Tables.  The Customer and Merchant rows the runs draw their tables from. *)
(* customer_id and merchant_id are the numbers i of CUST_i and MERCH_i;     *)
(* avg_transaction_amount is in thousandths.                                *)
(***************************************************************************)
CustomerUniverse ==
    { [customer_id |-> 1, customer_segment |-> "Premium", is_pep |-> 1,
       avg_transaction_amount |-> 120000],
      [customer_id |-> 2, customer_segment |-> "Basic", is_pep |-> 0,
       avg_transaction_amount |-> 15000] }

MerchantUniverse ==
    { [merchant_id |-> 1, mcc_code |-> "5411", merchant_risk_category |-> "low",
       merchant_country |-> "FR", is_compromised |-> 0],
      [merchant_id |-> 2, mcc_code |-> "7995", merchant_risk_category |-> "high",
       merchant_country |-> "US", is_compromised |-> 0],
      [merchant_id |-> 3, mcc_code |-> "4121", merchant_risk_category |-> "medium",
       merchant_country |-> "FR", is_compromised |-> 1] }

\* the tables a run may be given
CustomerTables == {CustomerUniverse}

MerchantTables ==
    { MerchantUniverse,
      {m \in MerchantUniverse : m.merchant_country = "FR"} }

\* merchants[merchants['is_compromised'] == 1]['merchant_id'].tolist()
CompromisedIds(registry) ==
    {m.merchant_id : m \in {x \in registry : x.is_compromised = 1}}

\* n_fraudsters = int(self.n_customers * 0.01)
NFraudsters(n) == n \div 100

(***************************************************************************)
(* Random draws: the sampled outcomes of each distribution.                 *)
(***************************************************************************)
\* random.uniform(a, b) together with random.randint(lo, hi), both ends
\* included: the sampled pairs <<amount, delay>>
UniformRandint(a, b, lo, hi) == { <<a, lo>>, <<b, hi>> }

\* random.randint(lo, hi), both ends included
Randint(lo, hi) == {lo, hi}

\* np.random.normal(loc, scale)
Normal(loc, scale) == {loc - 3 * scale}

Max(a, b) == IF a >= b THEN a ELSE b
Min(a, b) == IF a <= b THEN a ELSE b

\* round half to even of n / d, for n >= 0 and d > 0 even
RoundHalfEven(n, d) ==
    LET q == n \div d
        r == n % d
    IN  IF 2 * r < d THEN q
        ELSE IF 2 * r > d THEN q + 1
        ELSE IF q % 2 = 0 THEN q ELSE q + 1

\* round(x, 2): thousandths to cents
Round2(x) == RoundHalfEven(x, 10)

(***************************************************************************)
(* Timestamp sampling (lines 364-385).                                      *)
(***************************************************************************)
\* txn_timestamp = self.end_date - timedelta(days, hours, minutes, seconds),
\* lines 365-385
TxnTimestampFrom(date, days_ago, hour, minute, second) ==
    date - (Min(days_ago, SimulationDays) * SecondsPerDay
            + hour * 3600 + minute * 60 + second)

\* the same for the simulator constructed at EndDate
TxnTimestamp(days_ago, hour, minute, second) ==
    TxnTimestampFrom(EndDate, days_ago, hour, minute, second)

Timestamps == { TxnTimestamp(t[1], t[2], t[3], t[4]) : t \in TimeSamples }

\* random.random() > seasonal_factor / 2.0 can be true
CanReject(dt) == _get_seasonal_factor(dt) < 2 * FactorScale

\* random.random() > seasonal_factor / 2.0 can be false
CanAccept(dt) == _get_seasonal_factor(dt) > 0

(***************************************************************************)
(* Merchant selection (lines 396-403): up to 5 samples, the first accepted  *)
(* one wins, the last sampled one is kept when all are refused.             *)
(***************************************************************************)
MaxAttempts == 5

\* random.random() < compatibility can be true / can be false
CanAcceptMerchant(customer, merchant) ==
    _is_customer_merchant_compatible(customer, merchant) > 0

CanRefuseMerchant(customer, merchant) ==
    _is_customer_merchant_compatible(customer, merchant) < ProbScale

\* the merchants the while loop can end with, entered after `refused` refusals
RECURSIVE SelectMerchant(_, _)
SelectMerchant(customer, refused) ==
    UNION { ( (IF CanAcceptMerchant(customer, m) THEN {m} ELSE {})
              \cup
              (IF CanRefuseMerchant(customer, m)
               THEN IF refused + 1 < MaxAttempts
                    THEN SelectMerchant(customer, refused + 1)
                    ELSE {m}
               ELSE {}) ) : m \in merchants }

(***************************************************************************)
(* The fraud-pattern cascade (lines 405-476).  Each operator gives the      *)
(* outcomes of one arm: the tag, the amount, the final merchant and the     *)
(* detection delay.                                                         *)
(***************************************************************************)
Outcome(branch, is_fraud, fraud_type, amount, merchant, detection_delay) ==
    [branch |-> branch, is_fraud |-> is_fraud, fraud_type |-> fraud_type,
     amount |-> amount, merchant |-> merchant,
     detection_delay |-> detection_delay]

\* mutant of Legit: the floor max(1, .) is dropped
LegitNoFloor(branch, customer, merchant) ==
    { Outcome(branch, 0, "legit", Round2(x), merchant, None) :
        x \in Normal(customer.avg_transaction_amount, 15000) }

\* amount = round(max(1, np.random.normal(avg, 15)), 2), no fraud
Legit(branch, customer, merchant) ==
    { Outcome(branch, 0, "legit", Round2(Max(1000, x)), merchant, None) :
        x \in Normal(customer.avg_transaction_amount, 15000) }

\* mutant of CardTesting: the foreign merchant is drawn from the whole
\* registry instead of the table passed in
CardTestingFromRegistry(customer, merchant) ==
    LET foreign_merchants == {m \in MerchantUniverse : m.merchant_country # "FR"}
    IN  { Outcome("A", 1, "card_testing", Round2(x[1]), m, Some(x[2])) :
            x \in UniformRandint(500, 4990, 1, 3),
            m \in (IF Cardinality(foreign_merchants) > 0
                   THEN foreign_merchants ELSE {merchant}) }

\* PATTERN A, lines 411-419
CardTesting(customer, merchant) ==
    LET foreign_merchants == {m \in merchants : m.merchant_country # "FR"}
    IN  { Outcome("A", 1, "card_testing", Round2(x[1]), m, Some(x[2])) :
            x \in UniformRandint(500, 4990, 1, 3),
            m \in (IF Cardinality(foreign_merchants) > 0
                   THEN foreign_merchants ELSE {merchant}) }

\* mutant of AccountTakeoverEligible: the segment test is dropped
AccountTakeoverEligibleAnySegment(customer) ==
    customer.customer_id \in fraudster_set

\* the elif condition of PATTERN B without its roll, lines 422-423
AccountTakeoverEligible(customer) ==
    /\ customer.customer_id \in fraudster_set
    /\ customer.customer_segment \in {"Premium", "Private"}

\* amount = round(amount / 100) * 100, in cents
RoundToHundred(amount) == RoundHalfEven(amount, 10000) * 10000

\* the sampled draws <<amount, delay, rounded>> of random.uniform(1000, 5000),
\* random.randint(7, 45) and random.random() < 0.4
AccountTakeoverSamples ==
    { <<1000000, 7, FALSE>>, <<1049990, 7, TRUE>>, <<4950000, 45, TRUE>> }

\* mutant of AccountTakeover: the merchant is redirected to a merchant that is
\* not low-risk
AccountTakeoverNotLowRisk(customer, merchant) ==
    LET high_risk == {m \in merchants : m.merchant_risk_category # "low"}
    IN  { Outcome("B", 1, "account_takeover",
                  IF x[3] THEN RoundToHundred(Round2(x[1])) ELSE Round2(x[1]),
                  m, Some(x[2])) :
            x \in AccountTakeoverSamples,
            m \in (IF Cardinality(high_risk) > 0 THEN high_risk ELSE {merchant}) }

\* PATTERN B, lines 425-435
AccountTakeover(customer, merchant) ==
    LET high_risk == {m \in merchants : m.merchant_risk_category = "high"}
    IN  { Outcome("B", 1, "account_takeover",
                  IF x[3] THEN RoundToHundred(Round2(x[1])) ELSE Round2(x[1]),
                  m, Some(x[2])) :
            x \in AccountTakeoverSamples,
            m \in (IF Cardinality(high_risk) > 0 THEN high_risk ELSE {merchant}) }

\* the elif condition of PATTERN C, line 438
CompromisedEligible(merchant) == merchant.merchant_id \in compromised

\* mutant of CompromisedTerminal: the fraudulent outcome sets no delay
CompromisedTerminalNoDelay(customer, merchant) ==
    { Outcome("C", 1, "compromised_terminal", Round2(Max(10000, x)), merchant, None) :
        x \in Normal(customer.avg_transaction_amount, 30000) }
    \cup Legit("C", customer, merchant)

\* mutant of CompromisedTerminal: a failed 70% roll goes on to the velocity
\* arm
CompromisedTerminalFallsThrough(customer, merchant) ==
    { Outcome("C", 1, "compromised_terminal", Round2(Max(10000, x)), merchant,
              Some(d)) :
        x \in Normal(customer.avg_transaction_amount, 30000),
        d \in Randint(14, 60) }
    \cup
    { Outcome("D", 1, "velocity_fraud", Round2(x[1]), merchant, Some(x[2])) :
        x \in UniformRandint(50000, 300000, 1, 7) }
    \cup Legit("D", customer, merchant)

\* PATTERN C, lines 439-445
CompromisedTerminal(customer, merchant) ==
    { Outcome("C", 1, "compromised_terminal", Round2(Max(10000, x)), merchant,
              Some(d)) :
        x \in Normal(customer.avg_transaction_amount, 30000),
        d \in Randint(14, 60) }
    \cup Legit("C", customer, merchant)

\* the elif condition of PATTERN D, line 448
HasLastTxn(customer) == customer.customer_id \in DOMAIN customer_last_txn

VelocityWindowMinutes == 5

\* time_diff < 5, time_diff the minutes from the last transaction, lines 449-452
VelocityEligible(customer, txn_timestamp) ==
    LET last_txn_time == customer_last_txn[customer.customer_id]
        time_diff_seconds == txn_timestamp - last_txn_time
    IN  time_diff_seconds < VelocityWindowMinutes * 60

\* mutant of VelocityFraud: the delay is drawn as for account takeover
VelocityFraudLongDelay(customer, merchant, txn_timestamp) ==
    (IF VelocityEligible(customer, txn_timestamp)
     THEN { Outcome("D", 1, "velocity_fraud", Round2(x[1]), merchant, Some(x[2])) :
              x \in UniformRandint(50000, 300000, 7, 45) }
     ELSE {})
    \cup Legit("D", customer, merchant)

\* PATTERN D, lines 449-458
VelocityFraud(customer, merchant, txn_timestamp) ==
    (IF VelocityEligible(customer, txn_timestamp)
     THEN { Outcome("D", 1, "velocity_fraud", Round2(x[1]), merchant, Some(x[2])) :
              x \in UniformRandint(50000, 300000, 1, 7) }
     ELSE {})
    \cup Legit("D", customer, merchant)

\* the elif condition of PATTERN E, line 461
HasUsualCountry(customer) == customer.customer_id \in DOMAIN customer_countries

\* line 463
GeographicEligible(customer, merchant) ==
    LET usual_country == customer_countries[customer.customer_id]
    IN  /\ merchant.merchant_country # usual_country
        /\ merchant.merchant_country # "FR"

\* PATTERN E, lines 462-472
GeographicAnomaly(customer, merchant) ==
    (IF GeographicEligible(customer, merchant)
     THEN { Outcome("E", 1, "geographic_anomaly", Round2(x[1]), merchant, Some(x[2])) :
              x \in UniformRandint(100000, 800000, 3, 21) }
     ELSE {})
    \cup Legit("E", customer, merchant)

\* mutant of Cascade: the velocity arm is tested before the compromised one
CascadeVelocityFirst(customer, merchant, txn_timestamp) ==
    CardTesting(customer, merchant)
    \cup
    (IF AccountTakeoverEligible(customer)
     THEN AccountTakeover(customer, merchant) ELSE {})
    \cup
    (IF HasLastTxn(customer)
     THEN VelocityFraud(customer, merchant, txn_timestamp)
     ELSE IF CompromisedEligible(merchant)
     THEN CompromisedTerminal(customer, merchant)
     ELSE IF HasUsualCountry(customer)
     THEN GeographicAnomaly(customer, merchant)
     ELSE Legit("F", customer, merchant))

\* the if / elif chain, lines 411-476: the card-testing roll may succeed for
\* any draw; when it fails the first arm whose condition holds is taken
Cascade(customer, merchant, txn_timestamp) ==
    CardTesting(customer, merchant)
    \cup
    (IF AccountTakeoverEligible(customer)
     THEN AccountTakeover(customer, merchant) ELSE {})
    \cup
    (IF CompromisedEligible(merchant)
     THEN CompromisedTerminal(customer, merchant)
     ELSE IF HasLastTxn(customer)
     THEN VelocityFraud(customer, merchant, txn_timestamp)
     ELSE IF HasUsualCountry(customer)
     THEN GeographicAnomaly(customer, merchant)
     ELSE Legit("F", customer, merchant))

(***************************************************************************)
(* The engine.                                                              *)
(***************************************************************************)
\* dict[key] = value
Put(dict, key, value) ==
    [k \in DOMAIN dict \cup {key} |-> IF k = key THEN value ELSE dict[k]]

\* the appended row, lines 491-511
Row(index, customer, txn_timestamp, o) ==
    [transaction_id |-> index + 1,
     customer_id |-> customer.customer_id,
     merchant_id |-> o.merchant.merchant_id,
     transaction_timestamp |-> txn_timestamp,
     amount |-> o.amount,
     merchant_country |-> o.merchant.merchant_country,
     is_international |-> IF o.merchant.merchant_country # "FR" THEN 1 ELSE 0,
     is_fraud |-> o.is_fraud,
     fraud_type |-> o.fraud_type,
     detection_delay_days |-> o.detection_delay,
     merchant_risk_category |-> o.merchant.merchant_risk_category]

\* the locals of an iteration that the cascade read, and the arm it took
Locals(customer, txn_timestamp, o) ==
    [accepted |-> TRUE,
     branch |-> o.branch,
     customer_id |-> customer.customer_id,
     txn_timestamp |-> txn_timestamp,
     last_txn_time |-> IF HasLastTxn(customer)
                       THEN Some(customer_last_txn[customer.customer_id]) ELSE None,
     usual_country |-> IF HasUsualCountry(customer)
                       THEN Some(customer_countries[customer.customer_id]) ELSE None]

NoLocals == [accepted |-> FALSE]

\* mutant of RecordLastTxn: the greatest timestamp is kept
RecordLastTxnGreatest(customer, txn_timestamp) ==
    Put(customer_last_txn, customer.customer_id,
        IF customer.customer_id \in DOMAIN customer_last_txn
        THEN Max(customer_last_txn[customer.customer_id], txn_timestamp)
        ELSE txn_timestamp)

\* customer_last_txn[customer_id] = txn_timestamp, line 479
RecordLastTxn(customer, txn_timestamp) ==
    Put(customer_last_txn, customer.customer_id, txn_timestamp)

\* mutant of RecordCountry: the usual country follows the latest row
RecordCountryAlways(customer, merchant) ==
    Put(customer_countries, customer.customer_id, merchant.merchant_country)

\* if customer_id not in customer_countries: customer_countries[customer_id] =
\* merchant['merchant_country'], with the merchant the cascade ended with,
\* lines 480-481
RecordCountry(customer, merchant) ==
    IF customer.customer_id \notin DOMAIN customer_countries
    THEN Put(customer_countries, customer.customer_id, merchant.merchant_country)
    ELSE customer_countries


\* no iteration is being followed statement by statement
IterIdle ==
    /\ cur_customer = None
    /\ cur_timestamp = None
    /\ cur_merchant = None
    /\ attempts = 0
    /\ sampled = <<>>

\* self.compromised_devices = set() in __init__ (line 50); no device pass
\* and no alert sampling has started
DevicesIdle ==
    /\ compromised_devices = {}
    /\ devices = <<>>
    /\ customer_devices = <<>>
    /\ device_usage_count = <<>>
    /\ pos = 0
    /\ df_devices = None
    /\ invocation = 0

AlertsIdle ==
    /\ alerted_txns = <<>>
    /\ alerts = <<>>

\* no process is followed: the clock and the generators are not read
RunsIdle ==
    /\ rng = 0
    /\ stream = <<>>
    /\ now = EndDate
    /\ end_date = Some(EndDate)
    /\ runs = <<>>

\* no call of a scorer is followed on its own
CallsIdle ==
    /\ call_args = None
    /\ call_result = None

StageIdle == IterIdle /\ DevicesIdle /\ AlertsIdle /\ RunsIdle /\ CallsIdle

Init ==
    /\ customers \in CustomerTables
    /\ merchants \in MerchantTables
    /\ n_customers \in {n \in NCustomersSamples :
                          NFraudsters(n) <= Cardinality(customers)}
    /\ n_transactions = NTransactions
    /\ compromised = CompromisedIds(MerchantUniverse)
    \* np.random.choice(customer ids, size=n_fraudsters, replace=False)
    /\ fraudster_set \in {s \in SUBSET {c.customer_id : c \in customers} :
                            Cardinality(s) = NFraudsters(n_customers)}
    /\ transactions = <<>>
    /\ customer_last_txn = <<>>
    /\ customer_countries = <<>>
    /\ i = 0
    /\ pc = "loop"
    /\ decision = NoLocals
    /\ StageIdle

\* mutant of LoopRunning: one iteration too many
LoopRunningOffByOne == pc = "loop" /\ i <= n_transactions

\* for i in range(self.n_transactions): another iteration follows, line 362
LoopRunning == pc = "loop" /\ i < n_transactions

\* mutant of RejectDraw: the customer tracking is updated before the
\* seasonality test
RejectDrawAfterUpdate ==
    /\ LoopRunning
    /\ \E txn_timestamp \in Timestamps :
         /\ CanReject(txn_timestamp)
         /\ \E customer \in customers :
              customer_last_txn' =
                  Put(customer_last_txn, customer.customer_id, txn_timestamp)
    /\ i' = i + 1
    /\ decision' = NoLocals
    /\ UNCHANGED <<customers, merchants, n_customers, n_transactions,
                   compromised, fraudster_set, transactions,
                   customer_countries, pc>>
    /\ UNCHANGED stageVars

\* an iteration whose draw the seasonality test discards, lines 387-390
RejectDraw ==
    /\ LoopRunning
    /\ \E txn_timestamp \in Timestamps : CanReject(txn_timestamp)
    /\ i' = i + 1
    /\ decision' = NoLocals
    /\ UNCHANGED <<customers, merchants, n_customers, n_transactions,
                   compromised, fraudster_set, transactions, customer_last_txn,
                   customer_countries, pc>>
    /\ UNCHANGED stageVars

\* an iteration that emits a row, lines 392-511
EmitDraw ==
    /\ LoopRunning
    /\ \E txn_timestamp \in Timestamps :
         /\ CanAccept(txn_timestamp)
         /\ \E customer \in customers :
              \E merchant \in SelectMerchant(customer, 0) :
                \E o \in Cascade(customer, merchant, txn_timestamp) :
                   /\ customer_last_txn' =
                        RecordLastTxn(customer, txn_timestamp)
                   /\ customer_countries' = RecordCountry(customer, o.merchant)
                   /\ transactions' =
                        Append(transactions, Row(i, customer, txn_timestamp, o))
                   /\ decision' = Locals(customer, txn_timestamp, o)
    /\ i' = i + 1
    /\ UNCHANGED <<customers, merchants, n_customers, n_transactions,
                   compromised, fraudster_set, pc>>
    /\ UNCHANGED stageVars

\* the for loop ends after n_transactions iterations, line 362
EndLoop ==
    /\ pc = "loop"
    /\ ~LoopRunning
    /\ pc' = "done"
    /\ UNCHANGED <<customers, merchants, n_customers, n_transactions,
                   compromised, fraudster_set, transactions, customer_last_txn,
                   customer_countries, i, decision>>
    /\ UNCHANGED stageVars

Next == RejectDraw \/ EmitDraw \/ EndLoop

Spec == Init /\ [][Next]_vars

(***************************************************************************)
(* One iteration of the loop, followed statement by statement through the   *)
(* merchant selection (lines 393-403): pc is "while" at the test of the     *)
(* while loop, "cascade" after the loop and "emitted" after the append.     *)
(***************************************************************************)
\* the draw passes the seasonality test and the customer is sampled,
\* lines 364-397
AcceptDraw ==
    /\ LoopRunning
    /\ \E ts \in Timestamps :
         /\ CanAccept(ts)
         /\ cur_timestamp' = Some(ts)
    /\ \E c \in customers : cur_customer' = Some(c)
    /\ attempts' = 0
    /\ sampled' = <<>>
    /\ pc' = "while"
    /\ UNCHANGED <<engineVars, cur_merchant>>
    /\ UNCHANGED <<deviceVars, alertVars, runVars>>
    /\ UNCHANGED callVars

\* mutant of SampleMerchant: an accepted sample does not leave the loop
SampleMerchantNoBreak ==
    /\ pc = "while"
    /\ attempts < MaxAttempts
    /\ \E m \in merchants :
         /\ cur_merchant' = Some(m)
         /\ \E accepted \in {a \in BOOLEAN :
                               IF a THEN CanAcceptMerchant(cur_customer[1], m)
                               ELSE CanRefuseMerchant(cur_customer[1], m)} :
              /\ sampled' = Append(sampled, <<m.merchant_id, accepted>>)
              /\ attempts' = attempts + 1
              /\ pc' = IF attempts + 1 < MaxAttempts THEN "while" ELSE "cascade"
    /\ UNCHANGED <<engineVars, cur_customer, cur_timestamp>>
    /\ UNCHANGED <<deviceVars, alertVars, runVars>>
    /\ UNCHANGED callVars

\* one pass of the while loop: sample, roll, break or count, lines 398-403
SampleMerchant ==
    /\ pc = "while"
    /\ attempts < MaxAttempts
    /\ \E m \in merchants :
         /\ cur_merchant' = Some(m)
         /\ \E accepted \in {a \in BOOLEAN :
                               IF a THEN CanAcceptMerchant(cur_customer[1], m)
                               ELSE CanRefuseMerchant(cur_customer[1], m)} :
              /\ sampled' = Append(sampled, <<m.merchant_id, accepted>>)
              /\ IF accepted
                 THEN /\ pc' = "cascade"
                      /\ UNCHANGED attempts
                 ELSE /\ attempts' = attempts + 1
                      /\ pc' = IF attempts + 1 < MaxAttempts
                               THEN "while" ELSE "cascade"
    /\ UNCHANGED <<engineVars, cur_customer, cur_timestamp>>
    /\ UNCHANGED <<deviceVars, alertVars, runVars>>
    /\ UNCHANGED callVars

\* the rest of the iteration: cascade, tracking update, append, lines 405-511
EmitSelected ==
    /\ pc = "cascade"
    /\ \E o \in Cascade(cur_customer[1], cur_merchant[1], cur_timestamp[1]) :
         /\ cur_merchant' = Some(o.merchant)
         /\ customer_last_txn' =
              RecordLastTxn(cur_customer[1], cur_timestamp[1])
         /\ customer_countries' = RecordCountry(cur_customer[1], o.merchant)
         /\ transactions' =
              Append(transactions, Row(i, cur_customer[1], cur_timestamp[1], o))
         /\ decision' = Locals(cur_customer[1], cur_timestamp[1], o)
    /\ i' = i + 1
    /\ pc' = "emitted"
    /\ UNCHANGED <<customers, merchants, n_customers, n_transactions,
                   compromised, fraudster_set>>
    /\ UNCHANGED <<cur_customer, cur_timestamp, attempts, sampled>>
    /\ UNCHANGED <<deviceVars, alertVars, runVars>>
    /\ UNCHANGED callVars

NextSelection == AcceptDraw \/ SampleMerchant \/ EmitSelected

\* the statements of an iteration are executed one after the other
SpecSelection == Init /\ [][NextSelection]_vars /\ WF_vars(NextSelection)

(***************************************************************************)
(* The device pass, generate_device_fingerprinting (lines 535-621), called  *)
(* on a Transaction table.  A device id f'DEV_{n:08d}' is <<"DEV", n>> and  *)
(* f'DEV_FRAUD_{n:05d}' is <<"DEV_FRAUD", n>>: the two formats never give   *)
(* the same string and each is one-to-one in n.  The columns no modelled    *)
(* operation reads (device_type, ip_address, is_vpn, is_emulator, ...) are  *)
(* left out of the rows.                                                    *)
(***************************************************************************)
NInvocations == 2

\* tags of the rows of the sampled input tables
InputTags == {"legit", "account_takeover"}

\* a row as the engine appends it (lines 491-511), at a domestic merchant
InputRow(index, customer_id, fraud_type) ==
    [transaction_id |-> index,
     customer_id |-> customer_id,
     merchant_id |-> 1,
     transaction_timestamp |-> TxnTimestamp(0, 13, 0, 0),
     amount |-> 100000,
     merchant_country |-> "FR",
     is_international |-> 0,
     is_fraud |-> IF fraud_type = "legit" THEN 0 ELSE 1,
     fraud_type |-> fraud_type,
     detection_delay_days |-> IF fraud_type = "legit" THEN None ELSE Some(7),
     merchant_risk_category |-> "low"]

\* the tables of at most NTransactions rows, transaction ids in emitted order
InputTables ==
    UNION { { [j \in 1..n |-> InputRow(j, c[j], t[j])] :
                c \in [1..n -> {1, 2}], t \in [1..n -> InputTags] } :
            n \in 0..NTransactions }

\* np.random.choice of os and browser for a first device (lines 552-553) and
\* for a replacement device (lines 581-582)
FirstOsBrowser == { <<"iOS", "Safari">> }

NewOsBrowser == { <<"Android", "Chrome">> }

\* random.randint(100000, 999999), line 580
NewDeviceNumbers == {100000, 999999}

DeviceRecord(device_id, os_browser) ==
    [device_id |-> device_id, os |-> os_browser[1], browser |-> os_browser[2]]

\* if customer_id not in customer_devices: ..., lines 549-554
InitDevice(records, customer_id) ==
    IF customer_id \in DOMAIN records
    THEN {records}
    ELSE { Put(records, customer_id,
               DeviceRecord(<<"DEV", Cardinality(DOMAIN records)>>, ob)) :
             ob \in FirstOsBrowser }

\* the shared-device override of an account_takeover row, lines 557-565:
\* the pairs <<device id or None, pool after the step>>
SharedDevice(txn) ==
    { <<None, compromised_devices>> }
    \cup
    (IF txn.fraud_type = "account_takeover"
     THEN { <<Some(d), compromised_devices>> : d \in compromised_devices }
          \cup
          { << Some(<<"DEV_FRAUD", Cardinality(compromised_devices)>>),
               compromised_devices
                 \cup {<<"DEV_FRAUD", Cardinality(compromised_devices)>>} >> }
     ELSE {})

\* customer_devices[customer_id]['device_id'] = device_id, line 565
Override(records, customer_id, shared) ==
    IF shared = None
    THEN records
    ELSE Put(records, customer_id,
             [records[customer_id] EXCEPT !.device_id = shared[1]])

\* mutant of TrackUsage: the set of users is replaced by the latest user
TrackUsageLatest(usage, device_id, customer_id) ==
    Put(usage, device_id, {customer_id})

\* device_usage_count[device_id].add(customer_id), lines 571-573
TrackUsage(usage, device_id, customer_id) ==
    Put(usage, device_id,
        (IF device_id \in DOMAIN usage THEN usage[device_id] ELSE {})
            \cup {customer_id})

\* the device change, lines 576-583: the pairs <<device_changed, records>>
DeviceChange(records, customer_id) ==
    { <<0, records>> }
    \cup
    { <<1, Put(records, customer_id, DeviceRecord(<<"DEV", n>>, ob))>> :
        n \in NewDeviceNumbers, ob \in NewOsBrowser }

\* mutant of DeviceRow: the row is numbered by its position in the list
DeviceRowNumbered(txn, current_device, device_changed) ==
    [transaction_id |-> Len(devices),
     device_id |-> current_device.device_id,
     os |-> current_device.os,
     browser |-> current_device.browser,
     device_change_24h |-> device_changed]

\* the appended row, lines 593-607
DeviceRow(txn, current_device, device_changed) ==
    [transaction_id |-> txn.transaction_id,
     device_id |-> current_device.device_id,
     os |-> current_device.os,
     browser |-> current_device.browser,
     device_change_24h |-> device_changed]

\* the engine's variables other than the Transaction table
tableVars == <<customers, merchants, n_customers, n_transactions, compromised,
               fraudster_set, customer_last_txn, customer_countries, i,
               decision>>

\* the state in which a stage is called on a Transaction table: a simulator
\* just constructed, the tables of a returned engine
StageEntry(tables) ==
    /\ customers = CustomerUniverse
    /\ merchants = MerchantUniverse
    /\ n_customers = Cardinality(CustomerUniverse)
    /\ n_transactions = NTransactions
    /\ compromised = {}
    /\ fraudster_set = {}
    /\ transactions \in tables
    /\ customer_last_txn = <<>>
    /\ customer_countries = <<>>
    /\ i = 0
    /\ decision = NoLocals
    /\ IterIdle
    /\ AlertsIdle
    /\ RunsIdle
    /\ CallsIdle

\* mutant of DeviceStep: the appended row carries the record the device
\* change has just written
DeviceStepNewRecord ==
    /\ pc = "devices"
    /\ pos < Len(transactions)
    /\ LET txn == transactions[pos + 1]
           customer_id == txn.customer_id
       IN  \E known \in InitDevice(customer_devices, customer_id) :
             \E shared \in SharedDevice(txn) :
               LET records == Override(known, customer_id, shared[1])
                   current_device == records[customer_id]
               IN  \E change \in DeviceChange(records, customer_id) :
                     /\ compromised_devices' = shared[2]
                     /\ device_usage_count' =
                          TrackUsage(device_usage_count,
                                     current_device.device_id, customer_id)
                     /\ customer_devices' = change[2]
                     /\ devices' =
                          Append(devices,
                                 DeviceRow(txn, change[2][customer_id],
                                           change[1]))
    /\ pos' = pos + 1
    /\ UNCHANGED <<engineVars, pc, iterVars, runVars, alertVars, df_devices,
                   invocation>>
    /\ UNCHANGED callVars

\* one iteration of "for _, txn in transactions.iterrows()", lines 545-607
DeviceStep ==
    /\ pc = "devices"
    /\ pos < Len(transactions)
    /\ LET txn == transactions[pos + 1]
           customer_id == txn.customer_id
       IN  \E known \in InitDevice(customer_devices, customer_id) :
             \E shared \in SharedDevice(txn) :
               LET records == Override(known, customer_id, shared[1])
                   current_device == records[customer_id]
               IN  \E change \in DeviceChange(records, customer_id) :
                     /\ compromised_devices' = shared[2]
                     /\ device_usage_count' =
                          TrackUsage(device_usage_count,
                                     current_device.device_id, customer_id)
                     /\ customer_devices' = change[2]
                     /\ devices' =
                          Append(devices,
                                 DeviceRow(txn, current_device, change[1]))
    /\ pos' = pos + 1
    /\ UNCHANGED <<engineVars, pc, iterVars, runVars, alertVars, df_devices,
                   invocation>>
    /\ UNCHANGED callVars

\* df_devices['device_user_count'] = df_devices['device_id'].map(lambda x:
\* len(device_usage_count.get(x, set()))), lines 612-614
WithUserCount(rows, usage) ==
    [j \in 1..Len(rows) |->
        [transaction_id |-> rows[j].transaction_id,
         device_id |-> rows[j].device_id,
         os |-> rows[j].os,
         browser |-> rows[j].browser,
         device_change_24h |-> rows[j].device_change_24h,
         device_user_count |->
             IF rows[j].device_id \in DOMAIN usage
             THEN Cardinality(usage[rows[j].device_id]) ELSE 0]]

\* the loop is over: the table is built and returned, lines 609-621; a table
\* without rows has no column device_id and line 612 raises KeyError.  The
\* locals end with the call.
DeviceReturn ==
    /\ pc = "devices"
    /\ pos = Len(transactions)
    /\ IF devices = <<>>
       THEN /\ pc' = "failed"
            /\ df_devices' = None
       ELSE /\ pc' = "devices_done"
            /\ df_devices' = Some(WithUserCount(devices, device_usage_count))
    /\ devices' = <<>>
    /\ customer_devices' = <<>>
    /\ device_usage_count' = <<>>
    /\ pos' = 0
    /\ UNCHANGED <<engineVars, iterVars, runVars, alertVars,
                   compromised_devices, invocation>>
    /\ UNCHANGED callVars

\* generate_device_fingerprinting is called again on the same simulator:
\* devices, customer_devices and device_usage_count are new (lines 541-543),
\* self.compromised_devices is the field of the instance
InvokeDevices ==
    /\ pc = "devices_done"
    /\ invocation < NInvocations
    /\ transactions' \in InputTables
    /\ devices' = <<>>
    /\ customer_devices' = <<>>
    /\ device_usage_count' = <<>>
    /\ pos' = 0
    /\ df_devices' = None
    /\ invocation' = invocation + 1
    /\ pc' = "devices"
    /\ UNCHANGED <<tableVars, iterVars, runVars, alertVars,
                   compromised_devices>>
    /\ UNCHANGED callVars

(***************************************************************************)
(* The alert sampler, generate_fraud_alerts_history (lines 628-684).        *)
(* DataFrame.sample(frac=f) returns round(f * len) rows, without            *)
(* replacement, in a random order; round is Python's (half to even).        *)
(***************************************************************************)
\* round(frac * n) with frac = num / den
SampleSize(num, den, n) == RoundHalfEven(num * n, den)

\* the sequences of n distinct elements of S
RECURSIVE Arrangements(_, _)
Arrangements(S, n) ==
    IF n = 0 THEN {<<>>}
    ELSE UNION { { <<x>> \o t : t \in Arrangements(S \ {x}, n - 1) } : x \in S }

\* the positions of the rows transactions[transactions['is_fraud'] == v]
PositionsWith(v) ==
    {j \in 1..Len(transactions) : transactions[j].is_fraud = v}

\* mutant of FraudSample: every fraudulent row is alerted
FraudSampleAll ==
    Arrangements(PositionsWith(1), Cardinality(PositionsWith(1)))

\* fraud_txns = transactions[is_fraud == 1].sample(frac=0.65), line 635
FraudSample ==
    Arrangements(PositionsWith(1),
                 SampleSize(65, 100, Cardinality(PositionsWith(1))))

\* legit_txns = transactions[is_fraud == 0].sample(frac=0.025), line 638
LegitSample ==
    Arrangements(PositionsWith(0),
                 SampleSize(25, 1000, Cardinality(PositionsWith(0))))

\* mutant of AlertRow: the confirmation date adds the delay of the row,
\* fraudulent or not
AlertRowDelayAlways(txn, n_alerts) ==
    [alert_id |-> n_alerts + 1,
     transaction_id |-> txn.transaction_id,
     customer_id |-> txn.customer_id,
     alert_date |-> txn.transaction_timestamp,
     is_confirmed_fraud |-> txn.is_fraud,
     fraud_type |-> IF txn.is_fraud = 1 THEN Some(txn.fraud_type) ELSE None,
     resolution |-> IF txn.is_fraud = 1 THEN "fraud_confirmed"
                    ELSE "false_positive",
     confirmation_date |->
         txn.transaction_timestamp + 7 * SecondsPerDay]

\* the appended alert, lines 657-675; n_alerts is len(alerts)
AlertRow(txn, n_alerts) ==
    [alert_id |-> n_alerts + 1,
     transaction_id |-> txn.transaction_id,
     customer_id |-> txn.customer_id,
     alert_date |-> txn.transaction_timestamp,
     is_confirmed_fraud |-> txn.is_fraud,
     fraud_type |-> IF txn.is_fraud = 1 THEN Some(txn.fraud_type) ELSE None,
     resolution |-> IF txn.is_fraud = 1 THEN "fraud_confirmed"
                    ELSE "false_positive",
     confirmation_date |->
         txn.transaction_timestamp
           + (IF txn.is_fraud = 1 THEN txn.detection_delay_days[1] ELSE 0)
               * SecondsPerDay]

\* generate_fraud_alerts_history can be called: after the device pass has
\* returned (line 718), or directly on a table
AlertsCallable == pc \in {"devices_done", "alerts_entry"}

\* the two samples and their concatenation, lines 635-642
SampleAlerts ==
    /\ AlertsCallable
    /\ \E f \in FraudSample : \E l \in LegitSample : alerted_txns' = f \o l
    /\ alerts' = <<>>
    /\ pc' = "alerts"
    /\ UNCHANGED <<engineVars, iterVars, runVars, deviceVars>>
    /\ UNCHANGED callVars

\* mutant of AppendAlert: the alerted row of the Transaction table is marked
\* as detected
AppendAlertMarking ==
    /\ pc = "alerts"
    /\ Len(alerts) < Len(alerted_txns)
    /\ alerts' = Append(alerts,
                        AlertRow(transactions[alerted_txns[Len(alerts) + 1]],
                                 Len(alerts)))
    /\ transactions' =
         [transactions EXCEPT
            ![alerted_txns[Len(alerts) + 1]].detection_delay_days = Some(0)]
    /\ UNCHANGED <<tableVars, pc, iterVars, runVars, deviceVars, alerted_txns>>
    /\ UNCHANGED callVars

\* one iteration of "for _, txn in alerted_txns.iterrows()", lines 644-675
AppendAlert ==
    /\ pc = "alerts"
    /\ Len(alerts) < Len(alerted_txns)
    /\ alerts' = Append(alerts,
                        AlertRow(transactions[alerted_txns[Len(alerts) + 1]],
                                 Len(alerts)))
    /\ UNCHANGED <<engineVars, pc, iterVars, runVars, deviceVars, alerted_txns>>
    /\ UNCHANGED callVars

\* the table is built and returned, lines 677-684; a table without rows has
\* no column is_confirmed_fraud and line 680 raises KeyError
ReturnAlerts ==
    /\ pc = "alerts"
    /\ Len(alerts) = Len(alerted_txns)
    /\ pc' = IF alerts = <<>> THEN "failed" ELSE "returned"
    /\ UNCHANGED <<engineVars, iterVars, runVars, deviceVars, alertVars>>
    /\ UNCHANGED callVars

\* the device pass then the alert sampler on one table, as lines 715-718 run
\* them, and further device passes of the same simulator
InitDownstream ==
    /\ StageEntry(InputTables)
    /\ compromised_devices = {}
    /\ devices = <<>>
    /\ customer_devices = <<>>
    /\ device_usage_count = <<>>
    /\ pos = 0
    /\ df_devices = None
    /\ invocation = 1
    /\ pc = "devices"

NextDownstream ==
    \/ DeviceStep
    \/ DeviceReturn
    \/ InvokeDevices
    \/ SampleAlerts
    \/ AppendAlert
    \/ ReturnAlerts

SpecDownstream == InitDownstream /\ [][NextDownstream]_vars

\* numbers of fraudulent and of legitimate rows of the sampled tables
FraudCounts == {0, 1, 2, 3}

LegitCounts == {0, 1, 21}

\* tables of f fraudulent rows followed by l legitimate rows
AlertInputTables ==
    { [j \in 1..(f + l) |->
          InputRow(j, 1 + (j % 2),
                   IF j <= f THEN "account_takeover" ELSE "legit")] :
        f \in FraudCounts, l \in LegitCounts }

\* generate_fraud_alerts_history called on a table
InitAlerts ==
    /\ StageEntry(AlertInputTables)
    /\ DevicesIdle
    /\ pc = "alerts_entry"

NextAlerts == SampleAlerts \/ AppendAlert \/ ReturnAlerts

SpecAlerts == InitAlerts /\ [][NextAlerts]_vars

(***************************************************************************)
(* The orchestration, generate_all_tables (lines 691-739), of a simulator   *)
(* constructed with n_customers = 2 and two or three merchants: no customer *)
(* is a fraudster (int(2 * 0.01) = 0) and no merchant is compromised        *)
(* (int(3 * 0.005) = 0).                                                     *)
(***************************************************************************)
\* the registries generate_merchant_registry can return: is_compromised = 1
\* on int(n_merchants * 0.005) = 0 rows, lines 322-325
RegistryTables ==
    { { [m EXCEPT !.is_compromised = 0] : m \in table } :
        table \in MerchantTables }

\* n_transactions of the simulator generate_all_tables is run on
NPipelineTransactions == 1

InitPipeline ==
    /\ customers = {}
    /\ merchants = {}
    /\ n_customers = Cardinality(CustomerUniverse)
    /\ n_transactions = NPipelineTransactions
    /\ compromised = {}
    /\ fraudster_set = {}
    /\ transactions = <<>>
    /\ customer_last_txn = <<>>
    /\ customer_countries = <<>>
    /\ i = 0
    /\ decision = NoLocals
    /\ StageIdle
    /\ pc = "customers"

\* customers = self.generate_customer_profile(), line 706 (lines 160-253):
\* n_customers rows
GenerateCustomers ==
    /\ pc = "customers"
    /\ customers' \in {t \in CustomerTables : Cardinality(t) = n_customers}
    /\ pc' = "merchants"
    /\ UNCHANGED <<merchants, n_customers, n_transactions, compromised,
                   fraudster_set, transactions, customer_last_txn,
                   customer_countries, i, decision, stageVars>>

\* merchants = self.generate_merchant_registry(), line 709 (lines 260-333)
GenerateMerchants ==
    /\ pc = "merchants"
    /\ merchants' \in RegistryTables
    /\ compromised' = CompromisedIds(merchants')
    /\ pc' = "engine"
    /\ UNCHANGED <<customers, n_customers, n_transactions, fraudster_set,
                   transactions, customer_last_txn, customer_countries, i,
                   decision, stageVars>>

\* generate_transactions_advanced is entered, lines 712 and 353-360
StartEngine ==
    /\ pc = "engine"
    /\ transactions' = <<>>
    /\ customer_last_txn' = <<>>
    /\ customer_countries' = <<>>
    /\ fraudster_set' \in {f \in SUBSET {c.customer_id : c \in customers} :
                             Cardinality(f) = NFraudsters(n_customers)}
    /\ i' = 0
    /\ decision' = NoLocals
    /\ pc' = "loop"
    /\ UNCHANGED <<customers, merchants, n_customers, n_transactions,
                   compromised, stageVars>>

\* the engine builds its table and returns (lines 518-528), and the device
\* pass is entered (lines 715, 541-543); a table without rows has no column
\* is_fraud and line 523 raises KeyError
ReturnTransactions ==
    /\ pc = "done"
    /\ IF transactions = <<>>
       THEN /\ pc' = "failed"
            /\ UNCHANGED invocation
       ELSE /\ pc' = "devices"
            /\ invocation' = invocation + 1
    /\ UNCHANGED <<engineVars, iterVars, runVars, alertVars,
                   compromised_devices, devices, customer_devices,
                   device_usage_count, pos, df_devices>>
    /\ UNCHANGED callVars

\* the five tables are saved, the statistics printed and the tables
\* returned, lines 720-739
FinishTables ==
    /\ pc = "returned"
    /\ pc' = "finished"
    /\ UNCHANGED <<engineVars, stageVars>>

NextPipeline ==
    \/ GenerateCustomers
    \/ GenerateMerchants
    \/ StartEngine
    \/ RejectDraw
    \/ EmitDraw
    \/ EndLoop
    \/ ReturnTransactions
    \/ DeviceStep
    \/ DeviceReturn
    \/ SampleAlerts
    \/ AppendAlert
    \/ ReturnAlerts
    \/ FinishTables

SpecPipeline == InitPipeline /\ [][NextPipeline]_vars

(***************************************************************************)
(* The device pass and the alert sampler called on a Transaction table that *)
(* has rows whose customer_id or merchant_id is not in the Customer or the  *)
(* Merchant table.                                                          *)
(***************************************************************************)
\* a customer_id and a merchant_id that no row of the tables carries
OrphanCustomerId ==
    CHOOSE n \in 1..(Cardinality(CustomerUniverse) + 1) :
        \A c \in CustomerUniverse : c.customer_id # n

OrphanMerchantId ==
    CHOOSE n \in 1..(Cardinality(MerchantUniverse) + 1) :
        \A m \in MerchantUniverse : m.merchant_id # n

\* tables of at most NTransactions rows, each row of a customer and a
\* merchant that exist or do not
OrphanInputTables ==
    UNION { { [j \in 1..n |->
                 [InputRow(j, c[j], t[j]) EXCEPT !.merchant_id = m[j]]] :
                c \in [1..n -> {1, OrphanCustomerId}],
                m \in [1..n -> {1, OrphanMerchantId}],
                t \in [1..n -> InputTags] } :
            n \in 0..NTransactions }

InitOrphans ==
    /\ StageEntry(OrphanInputTables)
    /\ compromised_devices = {}
    /\ devices = <<>>
    /\ customer_devices = <<>>
    /\ device_usage_count = <<>>
    /\ pos = 0
    /\ df_devices = None
    /\ invocation = 1
    /\ pc = "devices"

NextOrphans ==
    \/ DeviceStep
    \/ DeviceReturn
    \/ SampleAlerts
    \/ AppendAlert
    \/ ReturnAlerts

SpecOrphans == InitOrphans /\ [][NextOrphans]_vars

(***************************************************************************)
(* The device pass on longer tables, in which two customers take turns.     *)
(***************************************************************************)
NDeviceRows == 4

\* tables of at most NDeviceRows rows, of customer 1 and customer 2 in turn
TurnTables ==
    UNION { { [j \in 1..n |-> InputRow(j, 2 - (j % 2), t[j])] :
                t \in [1..n -> InputTags] } :
            n \in 0..NDeviceRows }

InitDevicePass ==
    /\ StageEntry(TurnTables)
    /\ compromised_devices = {}
    /\ devices = <<>>
    /\ customer_devices = <<>>
    /\ device_usage_count = <<>>
    /\ pos = 0
    /\ df_devices = None
    /\ invocation = 1
    /\ pc = "devices"

NextDevicePass == DeviceStep \/ DeviceReturn

SpecDevicePass == InitDevicePass /\ [][NextDevicePass]_vars

(***************************************************************************)
(* Runs of the engine in processes that import the module.  The seeds are   *)
(* set when the module is imported (lines 13-16), end_date is read from the *)
(* clock when a simulator is constructed (line 44).  A position of the      *)
(* seeded stream always gives the same draw: stream records the draws by    *)
(* position.  Of an iteration this part keeps the timestamp and the         *)
(* seasonality test (lines 364-390); a row is its id and its timestamp.     *)
(***************************************************************************)
NRuns == 2

\* a draw: the timestamp sample and the value of random.random(), times
\* FactorScale
Draws == { << <<0, 0, 0, 0>>, 0 >>, << <<0, 13, 0, 0>>, FactorScale \div 2 >> }

\* time between two readings of the clock, in seconds
Elapsed == {1, SecondsPerDay}

InitRuns ==
    /\ customers = CustomerUniverse
    /\ merchants = MerchantUniverse
    /\ n_customers = Cardinality(CustomerUniverse)
    /\ n_transactions = NTransactions
    /\ compromised = {}
    /\ fraudster_set = {}
    /\ transactions = <<>>
    /\ customer_last_txn = <<>>
    /\ customer_countries = <<>>
    /\ i = 0
    /\ decision = NoLocals
    /\ IterIdle /\ DevicesIdle /\ AlertsIdle /\ CallsIdle
    /\ rng = 0
    /\ stream = <<>>
    /\ now = EndDate
    /\ end_date = None
    /\ runs = <<>>
    /\ pc = "idle"

\* a new process imports the module: np.random.seed(42), random.seed(42),
\* lines 15-16
ImportModule ==
    /\ pc = "idle"
    /\ rng' = 0
    /\ end_date' = None
    /\ UNCHANGED <<engineVars, pc, iterVars, deviceVars, alertVars, stream,
                   now, runs>>
    /\ UNCHANGED callVars

\* AdvancedBankDataSimulator(...) with the same arguments, lines 30-50, and
\* the call of the engine up to its loop
Construct ==
    /\ pc = "idle"
    /\ Len(runs) < NRuns
    /\ \E d \in Elapsed : /\ now' = now + d
                          /\ end_date' = Some(now + d)
    /\ transactions' = <<>>
    /\ i' = 0
    /\ pc' = "loop"
    /\ UNCHANGED <<customers, merchants, n_customers, n_transactions,
                   compromised, fraudster_set, customer_last_txn,
                   customer_countries, decision>>
    /\ UNCHANGED <<iterVars, deviceVars, alertVars, rng, stream, runs>>
    /\ UNCHANGED callVars

\* the iteration the draw at the generators' position gives, lines 364-390
\* and the append
StreamDraw ==
    /\ LoopRunning
    /\ \E draw \in (IF rng < Len(stream) THEN {stream[rng + 1]} ELSE Draws) :
         LET t == draw[1]
             ts == TxnTimestampFrom(end_date[1], t[1], t[2], t[3], t[4])
         IN  /\ stream' = IF rng < Len(stream) THEN stream
                          ELSE Append(stream, draw)
             /\ transactions' =
                  IF 2 * draw[2] > _get_seasonal_factor(ts)
                  THEN transactions
                  ELSE Append(transactions,
                              [transaction_id |-> i + 1,
                               transaction_timestamp |-> ts])
    /\ rng' = rng + 1
    /\ i' = i + 1
    /\ UNCHANGED <<customers, merchants, n_customers, n_transactions,
                   compromised, fraudster_set, customer_last_txn,
                   customer_countries, decision, pc>>
    /\ UNCHANGED <<iterVars, deviceVars, alertVars, now, end_date, runs>>
    /\ UNCHANGED callVars

\* the loop is over and the rows are returned, lines 518-528
ReturnRun ==
    /\ pc = "loop"
    /\ ~LoopRunning
    /\ runs' = Append(runs, transactions)
    /\ pc' = "idle"
    /\ UNCHANGED <<engineVars, iterVars, deviceVars, alertVars, rng, stream,
                   now, end_date>>
    /\ UNCHANGED callVars

NextRuns == ImportModule \/ Construct \/ StreamDraw \/ ReturnRun

SpecRuns == InitRuns /\ [][NextRuns]_vars

(***************************************************************************)
(* A call of _get_seasonal_factor on its own and the test the engine makes  *)
(* of the value (lines 387-390): pc is "call" before the call, "called"     *)
(* after it, then "continue" when the draw is discarded and "kept" when the *)
(* iteration goes on.                                                       *)
(***************************************************************************)
\* the timestamps of the calls: every hour of the first seven days of every
\* month, so every weekday at every hour in every month
SeasonalInputs ==
    { DateTime(month, day, hour, 0, 0) :
        month \in 1..12, day \in 1..7, hour \in 0..23 }

\* the engine's variables when a scorer is called on its own
ScorerEntry ==
    /\ customers = CustomerUniverse
    /\ merchants = MerchantUniverse
    /\ n_customers = Cardinality(CustomerUniverse)
    /\ n_transactions = NTransactions
    /\ compromised = {}
    /\ fraudster_set = {}
    /\ transactions = <<>>
    /\ customer_last_txn = <<>>
    /\ customer_countries = <<>>
    /\ i = 0
    /\ decision = NoLocals
    /\ IterIdle /\ DevicesIdle /\ AlertsIdle /\ RunsIdle

InitSeasonal ==
    /\ ScorerEntry
    /\ \E dt \in SeasonalInputs : call_args = <<dt>>
    /\ call_result = None
    /\ pc = "call"

\* seasonal_factor = self._get_seasonal_factor(txn_timestamp), line 388
CallSeasonalFactor ==
    /\ pc = "call"
    /\ Len(call_args) = 1
    /\ call_result' = Some(_get_seasonal_factor(call_args[1]))
    /\ pc' = "called"
    /\ UNCHANGED <<engineVars, iterVars, deviceVars, alertVars, runVars,
                   call_args>>

\* random.random() > seasonal_factor / 2.0 is true: continue, lines 389-390
DiscardDraw ==
    /\ pc = "called"
    /\ Len(call_args) = 1
    /\ call_result[1] < 2 * FactorScale
    /\ pc' = "continue"
    /\ UNCHANGED <<engineVars, stageVars>>

\* random.random() > seasonal_factor / 2.0 is false: the iteration goes on
KeepDraw ==
    /\ pc = "called"
    /\ Len(call_args) = 1
    /\ call_result[1] > 0
    /\ pc' = "kept"
    /\ UNCHANGED <<engineVars, stageVars>>

NextSeasonal == CallSeasonalFactor \/ DiscardDraw \/ KeepDraw

SpecSeasonal == InitSeasonal /\ [][NextSeasonal]_vars

(***************************************************************************)
(* A call of _is_customer_merchant_compatible on its own and the roll the   *)
(* while loop makes of the value (lines 399-403): pc is "call" before the   *)
(* call, "called" after it, then "break" or "retry".                        *)
(***************************************************************************)
Segments == {"Basic", "Standard", "Premium", "Private"}

RiskCategories == {"low", "medium", "high"}

\* the category codes the adjustments name, and one they do not
CategoryCodes == {"7995", "5999", "5735", "4121", "5411"}

\* the Customer rows and the Merchant rows of the calls, with the columns the
\* function reads
CustomerInputs ==
    { [customer_id |-> 1, customer_segment |-> segment, is_pep |-> is_pep,
       avg_transaction_amount |-> 50000] :
        segment \in Segments, is_pep \in {0, 1} }

MerchantInputs ==
    { [merchant_id |-> 1, mcc_code |-> mcc, merchant_risk_category |-> risk,
       merchant_country |-> "FR", is_compromised |-> 0] :
        mcc \in CategoryCodes, risk \in RiskCategories }

InitCompatible ==
    /\ ScorerEntry
    /\ \E customer \in CustomerInputs, merchant \in MerchantInputs :
         call_args = <<customer, merchant>>
    /\ call_result = None
    /\ pc = "call"

\* compatibility = self._is_customer_merchant_compatible(customer, merchant),
\* line 400
CallCompatible ==
    /\ pc = "call"
    /\ Len(call_args) = 2
    /\ call_result' =
         Some(_is_customer_merchant_compatible(call_args[1], call_args[2]))
    /\ pc' = "called"
    /\ UNCHANGED <<engineVars, iterVars, deviceVars, alertVars, runVars,
                   call_args>>

\* random.random() < compatibility is true: break, lines 401-402
BreakOnRoll ==
    /\ pc = "called"
    /\ Len(call_args) = 2
    /\ call_result[1] > 0
    /\ pc' = "break"
    /\ UNCHANGED <<engineVars, stageVars>>

\* random.random() < compatibility is false: attempts += 1, line 403
RetryOnRoll ==
    /\ pc = "called"
    /\ Len(call_args) = 2
    /\ call_result[1] < ProbScale
    /\ pc' = "retry"
    /\ UNCHANGED <<engineVars, stageVars>>

NextCompatible == CallCompatible \/ BreakOnRoll \/ RetryOnRoll

SpecCompatible == InitCompatible /\ [][NextCompatible]_vars

(***************************************************************************)
(* Properties.                                                              *)
(***************************************************************************)
Rows == {transactions[k] : k \in 1..Len(transactions)}

LastRow == transactions[Len(transactions)]

CustomerIds == {c.customer_id : c \in customers}

MerchantIds == {m.merchant_id : m \in merchants}

CustomerOf(row) == CHOOSE c \in customers : c.customer_id = row.customer_id

FraudTags == {"card_testing", "account_takeover", "compromised_terminal",
              "velocity_fraud", "geographic_anomaly"}

Abs(x) == IF x < 0 THEN -x ELSE x

\* C1: every emitted row references a row of the Customer table passed in and
\* a row of the Merchant table passed in, whatever path selected the merchant.
ReferentialIntegrity ==
    \A row \in Rows :
        /\ row.customer_id \in CustomerIds
        /\ row.merchant_id \in MerchantIds

\* C1 witness: a table without foreign and high-risk merchants, in which a
\* card-testing row and an account-takeover row kept the sampled merchant.
ReferentialIntegrityWitness ==
    /\ merchants # MerchantUniverse
    /\ \E row \in Rows : row.fraud_type = "card_testing"
    /\ \E row \in Rows : row.fraud_type = "account_takeover"

\* C2: for every emitted row, is_fraud = 1 iff fraud_type is not legit iff
\* detection_delay_days is not null.
LabelConsistency ==
    \A row \in Rows :
        /\ (row.is_fraud = 1) <=> (row.fraud_type # "legit")
        /\ (row.fraud_type # "legit") <=> (row.detection_delay_days # None)
        /\ row.is_fraud \in {0, 1}

\* C2 witness: a fraudulent row followed by a legitimate row emitted by the
\* compromised-terminal arm after its 70% roll failed.
LabelConsistencyWitness ==
    /\ Len(transactions) = 2
    /\ transactions[1].is_fraud = 1
    /\ decision.accepted /\ decision.branch = "C"
    /\ LastRow.fraud_type = "legit"

\* The triggering conditions of the five patterns for the latest emitted row,
\* re-derived from the row and the state the iteration read.
CardTestingHeld == decision.branch = "A"

AccountTakeoverHeld ==
    /\ LastRow.customer_id \in fraudster_set
    /\ CustomerOf(LastRow).customer_segment \in {"Premium", "Private"}

CompromisedHeld == LastRow.merchant_id \in compromised

VelocityHeld ==
    /\ decision.last_txn_time # None
    /\ Abs(decision.txn_timestamp - decision.last_txn_time[1]) < 5 * 60

GeographicHeld ==
    /\ decision.usual_country # None
    /\ LastRow.merchant_country # decision.usual_country[1]
    /\ LastRow.merchant_country # "FR"

HeldCount ==
    Cardinality({ k \in 1..5 :
        \/ k = 1 /\ CardTestingHeld
        \/ k = 2 /\ AccountTakeoverHeld
        \/ k = 3 /\ CompromisedHeld
        \/ k = 4 /\ VelocityHeld
        \/ k = 5 /\ GeographicHeld })

GeographicArmEvaluated ==
    ( /\ decision.accepted
      /\ GeographicHeld
      /\ LastRow.fraud_type \notin {"card_testing", "account_takeover",
                                    "compromised_terminal", "velocity_fraud"} )
    => decision.branch = "E"

\* C5: a row is tagged velocity_fraud only if the customer has a prior
\* transaction whose timestamp is less than 5 minutes away from the row's.
VelocityGapUnderFiveMinutes ==
    (decision.accepted /\ LastRow.fraud_type = "velocity_fraud") => VelocityHeld

\* C6: account_takeover rows belong to fraudster Premium/Private customers,
\* compromised_terminal rows to merchants of the compromised cluster, and the
\* fraudster set is a set of floor(0.01 * n_customers) customer ids that no
\* step changes.
FraudsterAndClusterRows ==
    /\ [](/\ \A row \in Rows :
               /\ row.fraud_type = "account_takeover" =>
                      /\ row.customer_id \in fraudster_set
                      /\ CustomerOf(row).customer_segment \in {"Premium", "Private"}
               /\ row.fraud_type = "compromised_terminal" =>
                      row.merchant_id \in compromised
          /\ fraudster_set \subseteq CustomerIds
          /\ 100 * Cardinality(fraudster_set) <= n_customers
          /\ n_customers < 100 * (Cardinality(fraudster_set) + 1))
    /\ [][fraudster_set' = fraudster_set]_vars

\* C6 witness: an account_takeover row and a compromised_terminal row.
FraudsterAndClusterRowsWitness ==
    /\ \E row \in Rows : row.fraud_type = "account_takeover"
    /\ \E row \in Rows : row.fraud_type = "compromised_terminal"
    /\ fraudster_set # {}

\* C7: the amount of every row lies in the range of its tag (in cents) and is
\* greater than 0.
AmountBounds ==
    \A row \in Rows :
        /\ row.fraud_type = "card_testing" =>
               50 <= row.amount /\ row.amount <= 499
        /\ row.fraud_type = "account_takeover" =>
               100000 <= row.amount /\ row.amount <= 500000
        /\ row.fraud_type = "velocity_fraud" =>
               5000 <= row.amount /\ row.amount <= 30000
        /\ row.fraud_type = "geographic_anomaly" =>
               10000 <= row.amount /\ row.amount <= 80000
        /\ row.fraud_type = "compromised_terminal" => row.amount >= 1000
        /\ row.fraud_type = "legit" => row.amount >= 100
        /\ row.amount > 0

\* C7 witness: an account_takeover amount rounded up to 5000.00 and a
\* legitimate amount raised to the floor of 1.00.
AmountBoundsWitness ==
    /\ \E row \in Rows :
           row.fraud_type = "account_takeover" /\ row.amount = 500000
    /\ \E row \in Rows : row.fraud_type = "legit" /\ row.amount = 100

DelayIn(row, lo, hi) ==
    /\ row.detection_delay_days # None
    /\ row.detection_delay_days[1] \in lo..hi

\* C8: the detection delay of every fraudulent row is an integer in the range
\* of its tag.
DelayBounds ==
    \A row \in Rows :
        /\ row.fraud_type = "card_testing" => DelayIn(row, 1, 3)
        /\ row.fraud_type = "account_takeover" => DelayIn(row, 7, 45)
        /\ row.fraud_type = "compromised_terminal" =>
               DelayIn(row, 14, 60)
        /\ row.fraud_type = "velocity_fraud" => DelayIn(row, 1, 7)
        /\ row.fraud_type = "geographic_anomaly" =>
               DelayIn(row, 3, 21)

\* C8 witness: a compromised_terminal row at the upper end of its range and a
\* velocity_fraud row at the upper end of its range.
DelayBoundsWitness ==
    /\ \E row \in Rows :
           row.fraud_type = "compromised_terminal" /\ row.detection_delay_days = Some(60)
    /\ \E row \in Rows :
           row.fraud_type = "velocity_fraud" /\ row.detection_delay_days = Some(7)

\* C9: the engine makes exactly n_transactions draws, each emitting at most
\* one row, so the emitted rows never outnumber n_transactions.
EmittedAtMostDraws ==
    /\ Len(transactions) <= i
    /\ i <= NTransactions
    /\ Len(transactions) <= NTransactions
    /\ pc = "done" => i = NTransactions

\* C9 witness: the loop has ended after a rejected draw and an emitted one.
EmittedAtMostDrawsWitness ==
    /\ pc = "done"
    /\ 0 < Len(transactions) /\ Len(transactions) < NTransactions

\* a step that is a draw rejected by the seasonality test
RejectedStep == i' # i /\ decision' = NoLocals

\* C10: a rejected draw emits no row, leaves the per-customer state, the
\* fraudster set and the emitted rows unchanged, and uses up its iteration.
RejectedDrawFrame ==
    [][RejectedStep =>
          /\ i' = i + 1
          /\ UNCHANGED <<transactions, customer_last_txn, customer_countries,
                         fraudster_set>>]_vars

\* C10 witness: a draw was rejected after a row had been emitted.
RejectedDrawFrameWitness ==
    /\ decision = NoLocals
    /\ i > 0
    /\ Len(transactions) > 0
    /\ DOMAIN customer_last_txn # {}

\* the rows of a customer, by position in the table
RowsOf(customer_id) ==
    {k \in 1..Len(transactions) : transactions[k].customer_id = customer_id}

FirstRowOf(customer_id) ==
    CHOOSE k \in RowsOf(customer_id) : \A j \in RowsOf(customer_id) : k <= j

\* C12: a customer has a usual country exactly from their first emitted row
\* on; it is the merchant_country of that row (the merchant after any
\* override), and no later step changes or removes it.
UsualCountryFrozen ==
    /\ [](/\ DOMAIN customer_countries =
               {row.customer_id : row \in Rows}
          /\ \A c \in DOMAIN customer_countries :
               customer_countries[c] =
                   transactions[FirstRowOf(c)].merchant_country)
    /\ [][\A c \in DOMAIN customer_countries :
            /\ c \in DOMAIN customer_countries'
            /\ customer_countries'[c] = customer_countries[c]]_vars

\* C12 witness: a customer whose second row is in another country than the
\* first, the first one being an overridden merchant's country.
UsualCountryFrozenWitness ==
    \E c \in DOMAIN customer_countries :
        /\ Cardinality(RowsOf(c)) = 2
        /\ transactions[FirstRowOf(c)].fraud_type = "card_testing"
        /\ customer_countries[c] = "US"
        /\ LastRow.customer_id = c
        /\ LastRow.merchant_country = "FR"

HasForeign == \E m \in merchants : m.merchant_country # "FR"

HasHighRisk == \E m \in merchants : m.merchant_risk_category = "high"

\* C13: a card_testing row has a non-FR merchant whenever the table passed in
\* has one, an account_takeover row a high-risk merchant whenever the table
\* has one; without such a merchant both arms keep the merchant already
\* selected and still produce a row.
OverrideTargets ==
    /\ \A row \in Rows :
         /\ (row.fraud_type = "card_testing" /\ HasForeign)
                => row.merchant_country # "FR"
         /\ (row.fraud_type = "account_takeover" /\ HasHighRisk)
                => row.merchant_risk_category = "high"
    /\ \A customer \in customers, merchant \in merchants :
         /\ CardTesting(customer, merchant) # {}
         /\ AccountTakeover(customer, merchant) # {}
         /\ ~HasForeign =>
               \A o \in CardTesting(customer, merchant) : o.merchant = merchant
         /\ ~HasHighRisk =>
               \A o \in AccountTakeover(customer, merchant) : o.merchant = merchant

\* C13 witness: the full table, with a card_testing row and an
\* account_takeover row, both redirected.
OverrideTargetsWitness ==
    /\ HasForeign /\ HasHighRisk
    /\ \E row \in Rows : /\ row.fraud_type = "card_testing"
                         /\ row.merchant_country # "FR"
    /\ \E row \in Rows : /\ row.fraud_type = "account_takeover"
                         /\ row.merchant_risk_category = "high"


\* C14: the merchant selection of an accepted draw ends after at most 5
\* samples, at the first sample the compatibility roll accepts; when all 5 are
\* refused the 5th sample is the merchant kept; in both cases the iteration
\* goes on and appends a row.
MerchantSelectionBounded ==
    /\ [](/\ Len(sampled) <= 5
          /\ pc = "while" => /\ Len(sampled) = attempts
                             /\ attempts < 5
          /\ pc \in {"while", "cascade"} =>
                \A j \in 1..(Len(sampled) - 1) : ~sampled[j][2]
          /\ pc = "while" => \A j \in 1..Len(sampled) : ~sampled[j][2]
          /\ pc = "cascade" =>
                /\ Len(sampled) >= 1
                /\ cur_merchant # None
                /\ cur_merchant[1].merchant_id = sampled[Len(sampled)][1]
                /\ cur_merchant[1] \in SelectMerchant(cur_customer[1], 0)
                /\ sampled[Len(sampled)][2] \/ Len(sampled) = 5
          /\ pc = "emitted" => Len(transactions) = 1)
    /\ (pc = "while") ~> (pc = "cascade")
    /\ (pc = "cascade") ~> (pc = "emitted")

\* C14 witness: five refused samples, the fifth one kept and a row appended
\* with it.
MerchantSelectionBoundedWitness ==
    /\ pc = "emitted"
    /\ Len(sampled) = 5
    /\ ~sampled[5][2]
    /\ sampled[4][1] # sampled[5][1]
    /\ LastRow.merchant_id = sampled[5][1]


\* the Device table returned by the latest device pass
DeviceTable == df_devices[1]

AlertRows == {alerts[n] : n \in 1..Len(alerts)}

\* C15: the Device table has one row per transaction, in the emitted order
\* (same transaction_id sequence), and every Alert row carries the
\* transaction_id and the customer_id of one row of the Transaction table.
DeviceAndAlertRowsMatch ==
    /\ pc = "devices" =>
         /\ Len(devices) = pos
         /\ \A j \in 1..Len(devices) :
              devices[j].transaction_id = transactions[j].transaction_id
    /\ df_devices # None =>
         /\ Len(DeviceTable) = Len(transactions)
         /\ \A j \in 1..Len(DeviceTable) :
              DeviceTable[j].transaction_id = transactions[j].transaction_id
    /\ \A a \in AlertRows :
         \E row \in Rows : /\ row.transaction_id = a.transaction_id
                           /\ row.customer_id = a.customer_id

\* C15 witness: both tables returned for a table of two rows of different
\* customers, one of them alerted.
DeviceAndAlertRowsMatchWitness ==
    /\ pc = "returned"
    /\ Len(transactions) = 2
    /\ transactions[1].customer_id # transactions[2].customer_id
    /\ Len(DeviceTable) = 2
    /\ Len(alerts) = 1

\* the customers of the transactions whose Device rows carry the device id
UsersOf(device_id) ==
    { transactions[j].customer_id :
        j \in {m \in 1..Len(DeviceTable) : DeviceTable[m].device_id = device_id} }

\* C16: after the device pass, device_user_count of every Device row is the
\* number of distinct customers of the transactions whose Device rows carry
\* the same device_id, and is at least 1.
UserCountIsDistinctCustomers ==
    df_devices # None =>
        \A j \in 1..Len(DeviceTable) :
            /\ DeviceTable[j].device_user_count =
                   Cardinality(UsersOf(DeviceTable[j].device_id))
            /\ DeviceTable[j].device_user_count >= 1

\* C16 witness: a device of the pool carried by the rows of two customers.
UserCountIsDistinctCustomersWitness ==
    /\ df_devices # None
    /\ \E j \in 1..Len(DeviceTable) :
         /\ DeviceTable[j].device_id[1] = "DEV_FRAUD"
         /\ DeviceTable[j].device_user_count = 2

\* C17: every call of generate_device_fingerprinting starts with an empty
\* pool of compromised devices and an empty customer-to-device map.
InvocationStartsClean ==
    (pc = "devices" /\ pos = 0) =>
        /\ compromised_devices = {}
        /\ customer_devices = <<>>

\* the row of the Transaction table an alert references
TxnOf(a) == CHOOSE row \in Rows : row.transaction_id = a.transaction_id

\* C18: every Alert row copies the ground truth of its transaction:
\* is_confirmed_fraud is is_fraud, resolution is fraud_confirmed iff the
\* transaction is fraudulent and false_positive otherwise, fraud_type is the
\* tag if fraudulent and null otherwise, confirmation_date is the timestamp
\* plus detection_delay_days if fraudulent and the timestamp otherwise.
AlertsCopyGroundTruth ==
    \A a \in AlertRows :
        LET txn == TxnOf(a)
        IN  /\ a.is_confirmed_fraud = txn.is_fraud
            /\ a.resolution \in {"fraud_confirmed", "false_positive"}
            /\ (a.resolution = "fraud_confirmed") <=> (txn.is_fraud = 1)
            /\ a.fraud_type = IF txn.is_fraud = 1
                              THEN Some(txn.fraud_type) ELSE None
            /\ a.alert_date = txn.transaction_timestamp
            /\ a.confirmation_date =
                 IF txn.is_fraud = 1
                 THEN txn.transaction_timestamp
                        + txn.detection_delay_days[1] * SecondsPerDay
                 ELSE txn.transaction_timestamp

\* C18 witness: a returned Alert table with a confirmed fraud and a false
\* positive.
AlertsCopyGroundTruthWitness ==
    /\ pc = "returned"
    /\ \E a \in AlertRows : a.resolution = "fraud_confirmed"
    /\ \E a \in AlertRows : a.resolution = "false_positive"

AlertedIds == {a.transaction_id : a \in AlertRows}

\* C19 as stated: for every non-empty Transaction table the alerted
\* transactions are a strict subset of the transactions, none referenced
\* twice, whatever the numbers of fraudulent and legitimate rows.
AlertsStrictSubset ==
    pc = "returned" =>
        /\ Cardinality(AlertedIds) = Len(alerts)
        /\ AlertedIds \subseteq {row.transaction_id : row \in Rows}
        /\ \E row \in Rows : row.transaction_id \notin AlertedIds

\* C19 amended: the alerted transactions are distinct rows of the table, as
\* many of the F fraudulent rows as 0.65 F rounds to and as many of the L
\* legitimate rows as 0.025 L rounds to; some transaction has no alert unless
\* the table is a single fraudulent row.
AlertsSampledSubset ==
    pc = "returned" =>
        LET F == Cardinality(PositionsWith(1))
            L == Cardinality(PositionsWith(0))
            nf == Cardinality({a \in AlertRows : a.is_confirmed_fraud = 1})
            nl == Cardinality({a \in AlertRows : a.is_confirmed_fraud = 0})
        IN  /\ Cardinality(AlertedIds) = Len(alerts)
            /\ AlertedIds \subseteq {row.transaction_id : row \in Rows}
            /\ 65 * F - 50 <= 100 * nf /\ 100 * nf <= 65 * F + 50
            /\ 25 * L - 500 <= 1000 * nl /\ 1000 * nl <= 25 * L + 500
            /\ ~(F = 1 /\ L = 0) =>
                  \E row \in Rows : row.transaction_id \notin AlertedIds

\* C19 witness: three fraudulent and 21 legitimate rows, two and one of them
\* alerted.
AlertsSampledSubsetWitness ==
    /\ pc = "returned"
    /\ Cardinality(PositionsWith(1)) = 3
    /\ Cardinality(PositionsWith(0)) = 21
    /\ Len(alerts) = 3


\* the order in which generate_all_tables goes from one stage to the next
StageSuccession ==
    { <<"customers", "merchants">>, <<"merchants", "engine">>,
      <<"engine", "loop">>, <<"loop", "done">>, <<"done", "devices">>,
      <<"done", "failed">>, <<"devices", "devices_done">>,
      <<"devices", "failed">>, <<"devices_done", "alerts">>,
      <<"alerts", "returned">>, <<"alerts", "failed">>,
      <<"returned", "finished">> }

\* C20: generate_all_tables runs customers, merchants, transactions, devices,
\* alerts in this order, a stage starting only once the previous one has
\* returned, and the device pass and the alert sampler leave the Transaction,
\* Customer and Merchant tables unchanged.
StagesOrderedAndFramed ==
    /\ [][pc' # pc => <<pc, pc'>> \in StageSuccession]_vars
    /\ [](/\ merchants # {} => customers # {}
          /\ pc \in {"customers", "merchants", "engine"} => transactions = <<>>
          /\ pc = "loop" => (customers # {} /\ merchants # {})
          /\ (devices # <<>> \/ df_devices # None) =>
                pc \in {"devices", "devices_done", "alerts", "returned",
                        "finished", "failed"}
          /\ (alerted_txns # <<>> \/ alerts # <<>>) =>
                (df_devices # None /\ pc \in {"alerts", "returned", "finished"}))
    /\ [][(pc \in {"devices", "devices_done", "alerts", "returned"}) =>
            UNCHANGED <<transactions, customers, merchants>>]_vars

\* C20 witness: a run that went through the five stages and returned five
\* non-empty tables.
StagesOrderedAndFramedWitness ==
    /\ pc = "finished"
    /\ customers # {} /\ merchants # {}
    /\ Len(transactions) = n_transactions
    /\ Len(DeviceTable) = Len(transactions)
    /\ Len(alerts) = 1


\* C11: two runs with the same configuration and seed return identical
\* tables (in particular as many rows), in one process or in two.
RunsAreIdentical ==
    \A a \in 1..Len(runs), b \in 1..Len(runs) : runs[a] = runs[b]


\* C21: the value _get_seasonal_factor returns is the product of the weekday
\* factor, the hour factor and the month factor of the timestamp, and lies
\* between 0.1 and 2.0, so that factor / 2.0 is a probability in (0, 1].
SeasonalFactorIsProbability ==
    call_result # None =>
        LET dt == call_args[1]
            factor == call_result[1]
        IN  /\ factor = DayFactor(dt) * HourFactor(dt) * MonthFactor(dt)
            /\ FactorScale <= 10 * factor
            /\ factor <= 2 * FactorScale


\* the 4x3 table of the compatibility scorer, times 10
TableEntry ==
    [segment \in Segments |->
        CASE segment = "Basic" ->
               [risk \in RiskCategories |->
                  CASE risk = "low" -> 9 [] risk = "medium" -> 6 [] OTHER -> 2]
          [] segment = "Standard" ->
               [risk \in RiskCategories |->
                  CASE risk = "low" -> 8 [] risk = "medium" -> 9 [] OTHER -> 5]
          [] segment = "Premium" ->
               [risk \in RiskCategories |->
                  CASE risk = "low" -> 7 [] risk = "medium" -> 9 [] OTHER -> 8]
          [] OTHER ->
               [risk \in RiskCategories |->
                  CASE risk = "low" -> 6 [] risk = "medium" -> 8 [] OTHER -> 9]]

\* C22: for every segment, risk category, category code and PEP flag the
\* compatibility scorer returns a value in [0,1]: the table entry of
\* (segment, risk), times 0.1 for a PEP customer at code 7995 or 5999, times
\* 0.3 for a Basic customer at code 5735 or 4121; the call changes no state
\* and its value depends on nothing but the arguments.
CompatibilityIsTableEntry ==
    /\ [](call_result # None =>
            LET customer == call_args[1]
                merchant == call_args[2]
                entry == TableEntry[customer.customer_segment]
                                   [merchant.merchant_risk_category]
                pep == customer.is_pep = 1
                          /\ merchant.mcc_code \in {"7995", "5999"}
                basic == customer.customer_segment = "Basic"
                            /\ merchant.mcc_code \in {"5735", "4121"}
                value == call_result[1]
            IN  /\ 0 <= value /\ value <= ProbScale
                /\ 1000 * value =
                     entry * ProbScale * (IF pep THEN 1 ELSE 10)
                                       * (IF basic THEN 3 ELSE 10))
    /\ [][(pc = "call") =>
            /\ call_args' = call_args
            /\ UNCHANGED <<engineVars, iterVars, deviceVars, alertVars,
                           runVars>>]_vars

\* C22 witness: the scorer has returned 0.1 * 0.8 for a PEP Premium customer
\* at a high-risk merchant of code 7995.
CompatibilityIsTableEntryWitness ==
    /\ call_result = Some((8 * ProbScale) \div 100)
    /\ call_args[1].customer_segment = "Premium"
    /\ call_args[1].is_pep = 1
    /\ call_args[2].mcc_code = "7995"
    /\ call_args[2].merchant_risk_category = "high"


\* the rows that reference no row of the Customer or of the Merchant table
Orphans ==
    { row \in Rows : \/ row.customer_id \notin CustomerIds
                     \/ row.merchant_id \notin MerchantIds }

\* C23: called on a Transaction table that has a row whose customer_id or
\* merchant_id references no Customer or Merchant row, the device pass and
\* the alert sampler produce no Device row and no Alert row.
OrphansRejected ==
    Orphans # {} =>
        /\ devices = <<>>
        /\ df_devices = None
        /\ alerts = <<>>


\* C24: a transaction whose selected merchant is in the compromised cluster
\* and for which neither card testing nor account takeover fired goes through
\* the compromised-terminal arm and no other: it is tagged
\* compromised_terminal, or legit when the 70% roll fails, and no row at a
\* merchant of the cluster is tagged velocity_fraud or geographic_anomaly.
CompromisedArmStops ==
    /\ ( /\ decision.accepted
         /\ decision.branch \notin {"A", "B"}
         /\ LastRow.merchant_id \in compromised )
       => /\ decision.branch = "C"
          /\ LastRow.fraud_type \in {"compromised_terminal", "legit"}
          /\ LastRow.fraud_type = "legit" =>
                 /\ LastRow.is_fraud = 0
                 /\ LastRow.detection_delay_days = None
    /\ \A row \in Rows :
         row.merchant_id \in compromised =>
             row.fraud_type \notin {"velocity_fraud", "geographic_anomaly"}

\* C24 witness: a legit row at a compromised terminal, of a customer whose
\* previous transaction is less than 5 minutes away and whose usual country
\* is recorded.
CompromisedArmStopsWitness ==
    /\ decision.accepted
    /\ decision.branch = "C"
    /\ LastRow.merchant_id \in compromised
    /\ LastRow.fraud_type = "legit"
    /\ VelocityHeld
    /\ decision.usual_country # None


\* C25: with non-empty Customer and Merchant tables generate_all_tables ends
\* normally whatever the draws give: no stage raises, also when every draw is
\* discarded by the seasonality test and when the alert sampler selects no
\* row.
PipelineNeverRaises ==
    (customers # {} /\ merchants # {}) => pc # "failed"


\* a device id that was not minted for the pool of compromised devices
NotPooled(device_id) == device_id[1] # "DEV_FRAUD"

\* C26: a device id that is not an entry of the pool of compromised devices
\* is recorded against at most one customer: the current device ids of two
\* customers differ unless they come from the pool, such a device is used by
\* one customer and its rows have device_user_count = 1.
UnpooledDevicesUnshared ==
    /\ \A c1 \in DOMAIN customer_devices, c2 \in DOMAIN customer_devices :
         (c1 # c2 /\ NotPooled(customer_devices[c1].device_id)) =>
             customer_devices[c1].device_id # customer_devices[c2].device_id
    /\ \A d \in DOMAIN device_usage_count :
         NotPooled(d) => Cardinality(device_usage_count[d]) <= 1
    /\ df_devices # None =>
         \A j \in 1..Len(DeviceTable) :
             NotPooled(DeviceTable[j].device_id) =>
                 DeviceTable[j].device_user_count = 1


\* the Device rows appended so far, or returned
DeviceRowsNow == IF df_devices # None THEN DeviceTable ELSE devices

\* the position of the previous row of the customer of row k, 0 if none
PreviousRowOf(k) ==
    LET earlier == {j \in 1..(k - 1) :
                      transactions[j].customer_id = transactions[k].customer_id}
    IN  IF earlier = {} THEN 0
        ELSE CHOOSE j \in earlier : \A m \in earlier : m <= j

\* the row carries a device id of the pool, written by the override of an
\* account_takeover row
Overridden(k) ==
    /\ transactions[k].fraud_type = "account_takeover"
    /\ ~NotPooled(DeviceRowsNow[k].device_id)

\* C27: a Device row whose change flag is 1 carries the device id, os and
\* browser the customer had before the change, as any row does; the
\* replacement record (new id, new os and browser) is carried by the next
\* row of that customer, its id replaced by a pool id if that row is
\* overridden.
ChangeShowsOnNextRow ==
    \A k \in 1..Len(DeviceRowsNow) :
        LET row == DeviceRowsNow[k]
            p == PreviousRowOf(k)
        IN  IF p = 0
            THEN /\ <<row.os, row.browser>> \in FirstOsBrowser
                 /\ Overridden(k) \/ row.device_id[2] \notin NewDeviceNumbers
            ELSE IF DeviceRowsNow[p].device_change_24h = 1
            THEN /\ <<row.os, row.browser>> \in NewOsBrowser
                 /\ \/ Overridden(k)
                    \/ /\ NotPooled(row.device_id)
                       /\ row.device_id[2] \in NewDeviceNumbers
            ELSE /\ row.os = DeviceRowsNow[p].os
                 /\ row.browser = DeviceRowsNow[p].browser
                 /\ Overridden(k) \/ row.device_id = DeviceRowsNow[p].device_id

\* C27 witness: the first row of a customer has the change flag set and the
\* first device; the customer's next row carries the replacement, and its
\* own change flag is set too.
ChangeShowsOnNextRowWitness ==
    /\ df_devices # None
    /\ Len(DeviceTable) >= 3
    /\ DeviceTable[1].device_change_24h = 1
    /\ DeviceTable[1].device_id = <<"DEV", 0>>
    /\ DeviceTable[1].os = "iOS"
    /\ DeviceTable[3].device_id[2] \in NewDeviceNumbers
    /\ DeviceTable[3].os = "Android"
    /\ DeviceTable[3].device_change_24h = 1


\* the position of the latest row of a customer
LatestRowOf(customer_id) ==
    CHOOSE k \in RowsOf(customer_id) : \A j \in RowsOf(customer_id) : j <= k

\* C28: after any sequence of draws the customers with a last-transaction
\* time, the customers with a usual country and the customers of the emitted
\* rows are the same set, and a customer's last-transaction time is the
\* timestamp of their latest emitted row in draw order.
TrackingFollowsRows ==
    /\ DOMAIN customer_last_txn = {row.customer_id : row \in Rows}
    /\ DOMAIN customer_countries = DOMAIN customer_last_txn
    /\ \A c \in DOMAIN customer_last_txn :
         customer_last_txn[c] =
             transactions[LatestRowOf(c)].transaction_timestamp

\* C28 witness: a customer whose second row has an earlier timestamp than
\* the first; the last-transaction time is the earlier one.
TrackingFollowsRowsWitness ==
    \E c \in DOMAIN customer_last_txn :
        /\ Cardinality(RowsOf(c)) = 2
        /\ transactions[LatestRowOf(c)].transaction_timestamp
             < transactions[FirstRowOf(c)].transaction_timestamp
        /\ customer_last_txn[c]
             = transactions[LatestRowOf(c)].transaction_timestamp

====
